---- MODULE Spec2Model ----
(***************************************************************************)
(* Library management business logic (services/library_service.py):        *)
(* catalog, borrowing, returning, late-fee calculation, fee payment and    *)
(* refund against an injected payment gateway.                             *)
(*                                                                         *)
(* Conventions                                                             *)
(*  - Python strings that the code inspects (patron ids, titles, isbns,    *)
(*    transaction ids) are sequences of one-character strings.             *)
(*  - datetime values are integer ticks, TicksPerDay ticks to the day; a   *)
(*    timedelta's .days is the floor of the tick difference by a day.      *)
(*  - money is in mills (1/1000 dollar): 0.50 is 500, 15.00 is 15000.      *)
(*  - the persistence layer (database.py) and the gateway                  *)
(*    (services/payment_service.py) are collaborators of the module; the   *)
(*    persistence operators below follow their documented contract.        *)
(***************************************************************************)
EXTENDS Integers, Sequences, FiniteSets, TLC

VARIABLES
    books,           \* the books table: a sequence, a book's id is its index
    borrow_records,  \* the borrow_records table, in insertion order
    now,             \* datetime.now(), in ticks
    last,            \* the last call at this instant: name, arguments, gateway calls, outcome
    storage          \* the persistence functions the last call called, in call order

vars == <<books, borrow_records, now, last, storage>>

----------------------------------------------------------------------------
(* Bounds of the model *)

MaxCopies == 7
MaxRecords == 6
TicksPerDay == 2
MaxDaysOverdue == 100
MaxServiceRecords == 2
MaxFaultRecords == 2

(* Program constants *)

MAX_TITLE_LEN == 200
MAX_AUTHOR_LEN == 100
ISBN_LEN == 13
PATRON_ID_LEN == 6
BORROW_LIMIT == 5
LOAN_DAYS == 14
RETURN_INCREMENT == 4
TIER1_DAYS == 7
TIER1_RATE == 500
TIER2_RATE == 1000
MAX_FEE == 15000

None == [none |-> TRUE]

(* an optional value: None, or the value *)
Null == <<>>
Some(v) == <<v>>

Digits == {"0", "1", "2", "3", "4", "5", "6", "7", "8", "9"}
Whitespace == {" "}

Min(a, b) == IF a <= b THEN a ELSE b
Max(a, b) == IF a >= b THEN a ELSE b

(* str.isdigit(): non-empty and every character a digit *)
isdigit(s) == Len(s) > 0 /\ \A i \in 1..Len(s) : s[i] \in Digits

(* str.strip(): leading and trailing whitespace removed *)
RECURSIVE lstrip(_)
lstrip(s) == IF s # <<>> /\ Head(s) \in Whitespace THEN lstrip(Tail(s)) ELSE s

RECURSIVE rstrip(_)
rstrip(s) ==
    IF s # <<>> /\ s[Len(s)] \in Whitespace THEN rstrip(SubSeq(s, 1, Len(s) - 1)) ELSE s

strip(s) == rstrip(lstrip(s))

(* str.startswith(prefix) *)
startswith(s, prefix) ==
    Len(s) >= Len(prefix) /\ SubSeq(s, 1, Len(prefix)) = prefix

(* date.strftime("%Y-%m-%d"): the calendar day of a tick *)
strftime(t) == t \div TicksPerDay

(* timedelta(days = n) *)
timedelta(n) == n * TicksPerDay

(* timedelta.days: whole days, rounded down *)
days(delta) == delta \div TicksPerDay

(* round(x, 2) and the :.2f format: to the nearest cent, a tie to the even cent *)
round2(x) ==
    LET q == x \div 10
        r == x % 10
    IN  IF r < 5 THEN 10 * q
        ELSE IF r > 5 THEN 10 * (q + 1)
        ELSE IF q % 2 = 0 THEN 10 * q ELSE 10 * (q + 1)

----------------------------------------------------------------------------
(* Persistence collaborator *)

get_book_by_id(book_id) ==
    IF book_id \in 1..Len(books) THEN books[book_id] ELSE None

get_book_by_isbn(isbn) ==
    IF \E i \in 1..Len(books) : books[i].isbn = isbn
    THEN books[CHOOSE i \in 1..Len(books) : books[i].isbn = isbn]
    ELSE None

(* the patron's outstanding records, in insertion order *)
get_patron_borrowed_books(patron_id) ==
    SelectSeq(borrow_records,
              LAMBDA r : r.patron_id = patron_id /\ r.return_date = Null)

get_patron_borrow_count(patron_id) == Len(get_patron_borrowed_books(patron_id))

insert_book(title, author, isbn, total_copies, available_copies) ==
    Append(books, [id |-> Len(books) + 1, title |-> title, author |-> author,
                   isbn |-> isbn, total_copies |-> total_copies,
                   available_copies |-> available_copies])

insert_borrow_record(patron_id, book_id, borrow_date, due_date) ==
    Append(borrow_records, [patron_id |-> patron_id, book_id |-> book_id,
                            borrow_date |-> borrow_date, due_date |-> due_date,
                            return_date |-> Null])

update_borrow_record_return_date(patron_id, book_id, return_date) ==
    [i \in 1..Len(borrow_records) |->
        IF /\ borrow_records[i].patron_id = patron_id
           /\ borrow_records[i].book_id = book_id
           /\ borrow_records[i].return_date = Null
        THEN [borrow_records[i] EXCEPT !.return_date = Some(return_date)]
        ELSE borrow_records[i]]

update_book_availability(book_id, delta) ==
    [i \in 1..Len(books) |->
        IF i = book_id
        THEN [books[i] EXCEPT !.available_copies = @ + delta]
        ELSE books[i]]

----------------------------------------------------------------------------
(* Shared validation and the record of a call *)

(* a patron id check that does not look at the length *)
ValidPatronIdAnyLength(patron_id) == isdigit(patron_id)

ValidPatronId(patron_id) ==
    ~(patron_id = <<>> \/ ~isdigit(patron_id) \/ Len(patron_id) # PATRON_ID_LEN)

Msg(text) == [text |-> text]

(* a call that returned ret, having made the gateway calls listed *)
Returned(op, args, gateway, ret) ==
    [op |-> op, args |-> args, gateway |-> gateway, exception |-> Null, ret |-> ret]

(* a call that an exception left *)
Raised(op, args, gateway, e) ==
    [op |-> op, args |-> args, gateway |-> gateway, exception |-> Some(e), ret |-> None]

Result(success, message) == [success |-> success, message |-> message]

----------------------------------------------------------------------------
(* add_book_to_catalog *)

(* input validation: the rejection, or None *)
AddBookValidate(title, author, isbn, total_copies) ==
    IF title = <<>> \/ strip(title) = <<>> THEN Msg("Title is required.")
    ELSE IF Len(strip(title)) > MAX_TITLE_LEN
         THEN Msg("Title must be less than 200 characters.")
    ELSE IF author = <<>> \/ strip(author) = <<>> THEN Msg("Author is required.")
    ELSE IF Len(strip(author)) > MAX_AUTHOR_LEN
         THEN Msg("Author must be less than 100 characters.")
    ELSE IF Len(isbn) # ISBN_LEN THEN Msg("ISBN must be exactly 13 digits.")
    ELSE IF total_copies <= 0 THEN Msg("Total copies must be a positive integer.")
    ELSE None

(* a duplicate check that never finds the isbn *)
AddBookCheckNoDuplicateTest(title, author, isbn, total_copies) ==
    AddBookValidate(title, author, isbn, total_copies)

(* input validation and the duplicate check: the rejection, or None *)
AddBookCheck(title, author, isbn, total_copies) ==
    IF AddBookValidate(title, author, isbn, total_copies) # None
    THEN AddBookValidate(title, author, isbn, total_copies)
    ELSE IF get_book_by_isbn(isbn) # None
         THEN Msg("A book with this ISBN already exists.")
    ELSE None

(* the persistence functions add_book_to_catalog calls *)
AddBookStorage(title, author, isbn, total_copies) ==
    IF AddBookValidate(title, author, isbn, total_copies) # None THEN <<>>
    ELSE IF AddBookCheck(title, author, isbn, total_copies) # None
    THEN <<"get_book_by_isbn">>
    ELSE <<"get_book_by_isbn", "insert_book">>

(* a new book that starts with no copy available *)
InitialAvailableZero(total_copies) == 0

(* the available_copies argument of insert_book: the total_copies argument again *)
InitialAvailable(total_copies) == total_copies

(* success: what insert_book returns *)
add_book_to_catalog(title, author, isbn, total_copies, success) ==
    LET rej == AddBookCheck(title, author, isbn, total_copies)
        op == "add_book_to_catalog"
        args == <<title, author, isbn, total_copies>>
    IN  /\ UNCHANGED <<borrow_records, now>>
        /\ storage' = AddBookStorage(title, author, isbn, total_copies)
        /\ IF rej # None
           THEN /\ last' = Returned(op, args, <<>>, Result(FALSE, rej))
                /\ UNCHANGED books
           ELSE IF success
           THEN /\ books' = insert_book(strip(title), strip(author), isbn,
                                        total_copies, InitialAvailable(total_copies))
                /\ last' = Returned(op, args, <<>>,
                               Result(TRUE, [text |-> "has been successfully added to the catalog.",
                                             title |-> strip(title)]))
           ELSE /\ last' = Returned(op, args, <<>>,
                               Result(FALSE, Msg("Database error occurred while adding the book.")))
                /\ UNCHANGED books

----------------------------------------------------------------------------
(* borrow_book_by_patron *)

(* a limit check that already blocks a patron holding BORROW_LIMIT books *)
LimitExceededAtLimit(current_borrowed) == current_borrowed >= BORROW_LIMIT

LimitExceeded(current_borrowed) == current_borrowed > BORROW_LIMIT

(* validation, lookup and policy: the rejection, or None *)
BorrowCheck(patron_id, book_id) ==
    IF ~ValidPatronId(patron_id) THEN Msg("Invalid patron ID. Must be exactly 6 digits.")
    ELSE IF get_book_by_id(book_id) = None THEN Msg("Book not found.")
    ELSE IF get_book_by_id(book_id).available_copies <= 0
         THEN Msg("This book is currently not available.")
    ELSE IF LimitExceeded(get_patron_borrow_count(patron_id))
         THEN Msg("You have reached the maximum borrowing limit of 5 books.")
    ELSE None

(* the delta borrow_book_by_patron hands to update_book_availability *)
BorrowDelta == -1

(* the persistence functions borrow_book_by_patron calls *)
BorrowStorage(patron_id, book_id, borrow_success) ==
    IF ~ValidPatronId(patron_id) THEN <<>>
    ELSE IF get_book_by_id(book_id) = None
            \/ get_book_by_id(book_id).available_copies <= 0
    THEN <<"get_book_by_id">>
    ELSE IF BorrowCheck(patron_id, book_id) # None
    THEN <<"get_book_by_id", "get_patron_borrow_count">>
    ELSE IF ~borrow_success
    THEN <<"get_book_by_id", "get_patron_borrow_count", "insert_borrow_record">>
    ELSE <<"get_book_by_id", "get_patron_borrow_count", "insert_borrow_record",
           "update_book_availability">>

(* a borrow without the return after a failed insert: the availability is
   updated all the same, and only its result is reported *)
borrow_book_by_patron_NoReturnAfterInsert(patron_id, book_id, borrow_success, availability_success) ==
    LET rej == BorrowCheck(patron_id, book_id)
        book == get_book_by_id(book_id)
        due_date == now + timedelta(LOAN_DAYS)
        op == "borrow_book_by_patron"
        args == <<patron_id, book_id>>
    IN  /\ UNCHANGED now
        /\ storage' = BorrowStorage(patron_id, book_id, TRUE)
        /\ IF rej # None
           THEN /\ last' = Returned(op, args, <<>>, Result(FALSE, rej))
                /\ UNCHANGED <<books, borrow_records>>
           ELSE /\ borrow_records' =
                       IF borrow_success
                       THEN insert_borrow_record(patron_id, book_id, now, due_date)
                       ELSE borrow_records
                /\ books' =
                       IF availability_success
                       THEN update_book_availability(book_id, BorrowDelta)
                       ELSE books
                /\ last' = Returned(op, args, <<>>,
                               IF availability_success
                               THEN Result(TRUE, [text |-> "Successfully borrowed",
                                                  title |-> book.title,
                                                  due |-> strftime(due_date)])
                               ELSE Result(FALSE, Msg("Database error occurred while updating book availability.")))

(* borrow_success, availability_success: what the two storage writes return *)
borrow_book_by_patron(patron_id, book_id, borrow_success, availability_success) ==
    LET rej == BorrowCheck(patron_id, book_id)
        book == get_book_by_id(book_id)
        borrow_date == now
        due_date == borrow_date + timedelta(LOAN_DAYS)
        op == "borrow_book_by_patron"
        args == <<patron_id, book_id>>
    IN  /\ UNCHANGED now
        /\ storage' = BorrowStorage(patron_id, book_id, borrow_success)
        /\ IF rej # None
           THEN /\ last' = Returned(op, args, <<>>, Result(FALSE, rej))
                /\ UNCHANGED <<books, borrow_records>>
           ELSE IF ~borrow_success
           THEN /\ last' = Returned(op, args, <<>>,
                               Result(FALSE, Msg("Database error occurred while creating borrow record.")))
                /\ UNCHANGED <<books, borrow_records>>
           ELSE /\ borrow_records' =
                       insert_borrow_record(patron_id, book_id, borrow_date, due_date)
                /\ IF availability_success
                   THEN /\ books' = update_book_availability(book_id, BorrowDelta)
                        /\ last' = Returned(op, args, <<>>,
                                       Result(TRUE, [text |-> "Successfully borrowed",
                                                     title |-> book.title,
                                                     due |-> strftime(due_date)]))
                   ELSE /\ last' = Returned(op, args, <<>>,
                                       Result(FALSE, Msg("Database error occurred while updating book availability.")))
                        /\ UNCHANGED books

----------------------------------------------------------------------------
(* return_book_by_patron *)

(* a return that does not look for the patron's borrow of the book *)
ReturnCheckNoBorrowTest(patron_id, book_id) ==
    IF ~ValidPatronId(patron_id) THEN Msg("INvalid patron ID. Must be exactly 6 digits.")
    ELSE IF get_book_by_id(book_id) = None THEN Msg("Book not found.")
    ELSE None

(* validation and lookups: the rejection, or None *)
ReturnCheck(patron_id, book_id) ==
    IF ~ValidPatronId(patron_id) THEN Msg("INvalid patron ID. Must be exactly 6 digits.")
    ELSE IF get_book_by_id(book_id) = None THEN Msg("Book not found.")
    ELSE IF ~\E i \in 1..Len(get_patron_borrowed_books(patron_id)) :
                get_patron_borrowed_books(patron_id)[i].book_id = book_id
         THEN Msg("No active borrow record found for this book and patron.")
    ELSE None

(* the delta return_book_by_patron hands to update_book_availability *)
ReturnDelta == RETURN_INCREMENT

(* the persistence functions return_book_by_patron calls *)
ReturnStorage(patron_id, book_id) ==
    IF ~ValidPatronId(patron_id) THEN <<>>
    ELSE IF get_book_by_id(book_id) = None THEN <<"get_book_by_id">>
    ELSE IF ReturnCheck(patron_id, book_id) # None
    THEN <<"get_book_by_id", "get_patron_borrowed_books">>
    ELSE <<"get_book_by_id", "get_patron_borrowed_books",
           "update_borrow_record_return_date", "update_book_availability">>

(* return_success, availability_success: what the two storage writes return;
   both writes are attempted whatever the first returns *)
return_book_by_patron(patron_id, book_id, return_success, availability_success) ==
    LET rej == ReturnCheck(patron_id, book_id)
        book == get_book_by_id(book_id)
        return_date == now
        op == "return_book_by_patron"
        args == <<patron_id, book_id>>
    IN  /\ UNCHANGED now
        /\ storage' = ReturnStorage(patron_id, book_id)
        /\ IF rej # None
           THEN /\ last' = Returned(op, args, <<>>, Result(FALSE, rej))
                /\ UNCHANGED <<books, borrow_records>>
           ELSE /\ borrow_records' =
                       IF return_success
                       THEN update_borrow_record_return_date(patron_id, book_id, return_date)
                       ELSE borrow_records
                /\ books' =
                       IF availability_success
                       THEN update_book_availability(book_id, ReturnDelta)
                       ELSE books
                /\ last' = Returned(op, args, <<>>,
                               IF return_success /\ availability_success
                               THEN Result(TRUE, [text |-> "Successfully returned",
                                                  title |-> book.title])
                               ELSE Result(FALSE, Msg("Database error occurred during return process.")))

----------------------------------------------------------------------------
(* calculate_late_fee_for_book *)

(* a fee that charges the first-tier rate for every day *)
FeeForDaysOneTier(days_overdue) == Min(days_overdue * TIER1_RATE, MAX_FEE)

(* a fee that stops growing after the first tier *)
FeeForDaysFlatSecondTier(days_overdue) ==
    Min(Min(days_overdue, TIER1_DAYS) * TIER1_RATE, MAX_FEE)

(* the tiered fee of an overdue record, capped *)
FeeForDays(days_overdue) ==
    LET fee_amount == IF days_overdue <= TIER1_DAYS
                      THEN days_overdue * TIER1_RATE
                      ELSE (TIER1_DAYS * TIER1_RATE)
                           + ((days_overdue - TIER1_DAYS) * TIER2_RATE)
    IN  Min(fee_amount, MAX_FEE)

(* a marker set only above the cap, which no fee reaches *)
MaximumFeeAppliedAboveCap(fee_amount) == fee_amount > MAX_FEE

MaximumFeeApplied(fee_amount) == fee_amount >= MAX_FEE

StatusMessage(fee_amount, days_overdue) ==
    [text |-> "Late fee", amount |-> round2(fee_amount), days |-> days_overdue,
     maximum_fee_applied |-> MaximumFeeApplied(fee_amount)]

calculate_late_fee_for_book(patron_id, book_id) ==
    LET borrowed_books == get_patron_borrowed_books(patron_id)
        matching == SelectSeq(borrowed_books, LAMBDA b : b.book_id = book_id)
    IN  IF matching = <<>>
        THEN [fee_amount |-> 0, days_overdue |-> 0,
              status |-> Msg("No active borrow record found")]
        ELSE LET due_date == Head(matching).due_date
                 current_date == now
             IN  IF current_date <= due_date
                 THEN [fee_amount |-> 0, days_overdue |-> 0,
                       status |-> Msg("No late fees - book not overdue")]
                 ELSE LET days_overdue == days(current_date - due_date)
                          fee_amount == FeeForDays(days_overdue)
                      IN  [fee_amount |-> round2(fee_amount),
                           days_overdue |-> days_overdue,
                           status |-> StatusMessage(fee_amount, days_overdue)]

CalculateLateFee(patron_id, book_id) ==
    /\ last' = Returned("calculate_late_fee_for_book", <<patron_id, book_id>>, <<>>,
                        calculate_late_fee_for_book(patron_id, book_id))
    /\ storage' = <<"get_patron_borrowed_books">>
    /\ UNCHANGED <<books, borrow_records, now>>

----------------------------------------------------------------------------
(* get_patron_status_report *)

(* a row of get_patron_borrowed_books: the record with the book's title and
   author and the derived is_overdue *)
BorrowedRow(r) ==
    [book_id |-> r.book_id,
     title |-> get_book_by_id(r.book_id).title,
     author |-> get_book_by_id(r.book_id).author,
     borrow_date |-> r.borrow_date, due_date |-> r.due_date,
     is_overdue |-> now > r.due_date]

(* the loop over borrowed_books, from row i on: total_fees and overdue_books *)
RECURSIVE StatusLoop(_, _, _, _, _)
StatusLoop(patron_id, borrowed_books, i, total_fees, overdue_books) ==
    IF i > Len(borrowed_books)
    THEN [total_fees |-> total_fees, overdue_books |-> overdue_books]
    ELSE LET book == BorrowedRow(borrowed_books[i])
             fee_calc == calculate_late_fee_for_book(patron_id, book.book_id)
         IN  IF fee_calc.fee_amount > 0
             THEN StatusLoop(patron_id, borrowed_books, i + 1,
                             total_fees + fee_calc.fee_amount,
                             Append(overdue_books,
                                    [book_title |-> book.title,
                                     days_overdue |-> fee_calc.days_overdue,
                                     fee |-> fee_calc.fee_amount]))
             ELSE StatusLoop(patron_id, borrowed_books, i + 1, total_fees,
                             overdue_books)

get_patron_status_report(patron_id) ==
    IF ~ValidPatronId(patron_id)
    THEN [error |-> "Invalid patron ID"]
    ELSE LET borrowed_books == get_patron_borrowed_books(patron_id)
             total_borrowed == Len(borrowed_books)
             loop == StatusLoop(patron_id, borrowed_books, 1, 0, <<>>)
         IN  [patron_id |-> patron_id,
              total_books_borrowed |-> total_borrowed,
              borrowing_limit_remaining |-> BORROW_LIMIT - total_borrowed,
              total_late_fees |-> round2(loop.total_fees),
              overdue_books |-> loop.overdue_books,
              current_borrows |->
                  [i \in 1..total_borrowed |->
                      LET book == BorrowedRow(borrowed_books[i])
                      IN  [title |-> book.title, author |-> book.author,
                           borrow_date |-> strftime(book.borrow_date),
                           due_date |-> strftime(book.due_date),
                           is_overdue |-> book.is_overdue]]]

(* the persistence functions get_patron_status_report calls, the calculator's
   included: one for the list, one for each row *)
StatusStorage(patron_id) ==
    IF ~ValidPatronId(patron_id) THEN <<>>
    ELSE [i \in 1..(1 + get_patron_borrow_count(patron_id)) |->
             "get_patron_borrowed_books"]

PatronStatusReport(patron_id) ==
    /\ last' = Returned("get_patron_status_report", <<patron_id>>, <<>>,
                        get_patron_status_report(patron_id))
    /\ storage' = StatusStorage(patron_id)
    /\ UNCHANGED <<books, borrow_records, now>>

----------------------------------------------------------------------------
(* The payment gateway: what a call to it does.  It returns a tuple, or raises. *)

GatewayReturns(value) == [kind |-> "return", value |-> value]
GatewayRaises(e) == [kind |-> "raise", e |-> e]

PayResult(success, message, transaction_id) ==
    [success |-> success, message |-> message, transaction_id |-> transaction_id]

(* a pay_late_fees that does not look at the fee before charging *)
PayCheckNoFeeTest(patron_id, book_id) ==
    IF ~ValidPatronId(patron_id)
    THEN Msg("Invalid patron ID. Must be exactly 6 digits.")
    ELSE IF get_book_by_id(book_id) = None THEN Msg("Book not found.")
    ELSE None

(* pay_late_fees up to the gateway call: the rejection, or None.  The test
   that fee_info is empty or has no fee_amount never passes: the calculator
   always returns a dict with that key. *)
PayCheck(patron_id, book_id) ==
    LET fee_info == calculate_late_fee_for_book(patron_id, book_id)
    IN  IF ~ValidPatronId(patron_id)
        THEN Msg("Invalid patron ID. Must be exactly 6 digits.")
        ELSE IF fee_info.fee_amount <= 0 THEN Msg("No late fees to pay for this book.")
        ELSE IF get_book_by_id(book_id) = None THEN Msg("Book not found.")
        ELSE None

(* a pay_late_fees without the except clause, and handing on the id of a
   declined payment *)
PayOutcomeNoExcept(op, args, calls, outcome) ==
    IF outcome.kind = "raise"
    THEN Raised(op, args, calls, outcome.e)
    ELSE Returned(op, args, calls,
             PayResult(outcome.value[1], [text |-> "Payment", message |-> outcome.value[3]],
                       Some(outcome.value[2])))

(* the try block around process_payment: the handler's outcome for what the
   gateway did *)
PayOutcome(op, args, calls, outcome) ==
    IF outcome.kind = "raise"
    THEN Returned(op, args, calls,
             PayResult(FALSE, [text |-> "Payment processing error", e |-> outcome.e], Null))
    ELSE IF outcome.value[1]
    THEN Returned(op, args, calls,
             PayResult(TRUE, [text |-> "Payment successful!", message |-> outcome.value[3]],
                       Some(outcome.value[2])))
    ELSE Returned(op, args, calls,
             PayResult(FALSE, [text |-> "Payment failed", message |-> outcome.value[3]], Null))

(* the persistence functions pay_late_fees calls, the calculator's included *)
PayStorage(patron_id, book_id) ==
    IF ~ValidPatronId(patron_id) THEN <<>>
    ELSE IF calculate_late_fee_for_book(patron_id, book_id).fee_amount <= 0
    THEN <<"get_patron_borrowed_books">>
    ELSE <<"get_patron_borrowed_books", "get_book_by_id">>

(* a pay_late_fees that closes the borrow record once the payment went through *)
pay_late_fees_ClosingRecord(patron_id, book_id, outcome) ==
    LET rej == PayCheck(patron_id, book_id)
        fee_amount == calculate_late_fee_for_book(patron_id, book_id).fee_amount
        book == get_book_by_id(book_id)
        op == "pay_late_fees"
        args == <<patron_id, book_id>>
        calls == <<[method |-> "process_payment", patron_id |-> patron_id,
                    amount |-> fee_amount,
                    description |-> [text |-> "Late fees for", title |-> book.title],
                    outcome |-> outcome]>>
        paid == rej = None /\ outcome.kind = "return" /\ outcome.value[1]
    IN  /\ UNCHANGED <<books, now>>
        /\ borrow_records' =
               IF paid THEN update_borrow_record_return_date(patron_id, book_id, now)
               ELSE borrow_records
        /\ storage' = PayStorage(patron_id, book_id)
        /\ last' = IF rej # None
                   THEN Returned(op, args, <<>>, PayResult(FALSE, rej, Null))
                   ELSE PayOutcome(op, args, calls, outcome)

(* outcome: what payment_gateway.process_payment does if it is called *)
pay_late_fees(patron_id, book_id, outcome) ==
    LET rej == PayCheck(patron_id, book_id)
        fee_amount == calculate_late_fee_for_book(patron_id, book_id).fee_amount
        book == get_book_by_id(book_id)
        op == "pay_late_fees"
        args == <<patron_id, book_id>>
        calls == <<[method |-> "process_payment", patron_id |-> patron_id,
                    amount |-> fee_amount,
                    description |-> [text |-> "Late fees for", title |-> book.title],
                    outcome |-> outcome]>>
    IN  /\ UNCHANGED <<books, borrow_records, now>>
        /\ storage' = PayStorage(patron_id, book_id)
        /\ last' = IF rej # None
                   THEN Returned(op, args, <<>>, PayResult(FALSE, rej, Null))
                   ELSE PayOutcome(op, args, calls, outcome)

----------------------------------------------------------------------------
(* refund_late_fee_payment *)

TXN_PREFIX == <<"t", "x", "n", "_">>

(* a validation that rejects a refund of exactly the maximum fee *)
RefundCheckBelowMax(transaction_id, amount) ==
    IF transaction_id = <<>> \/ ~startswith(transaction_id, TXN_PREFIX)
    THEN Msg("Invalid transaction ID.")
    ELSE IF amount <= 0 THEN Msg("Refund amount must be greater than 0.")
    ELSE IF amount >= MAX_FEE THEN Msg("Refund amount exceeds maximum late fee.")
    ELSE None

(* input validation: the rejection, or None *)
RefundCheck(transaction_id, amount) ==
    IF transaction_id = <<>> \/ ~startswith(transaction_id, TXN_PREFIX)
    THEN Msg("Invalid transaction ID.")
    ELSE IF amount <= 0 THEN Msg("Refund amount must be greater than 0.")
    ELSE IF amount > MAX_FEE THEN Msg("Refund amount exceeds maximum late fee.")
    ELSE None

(* the try block around refund_payment *)
RefundOutcome(op, args, calls, outcome) ==
    IF outcome.kind = "raise"
    THEN Returned(op, args, calls,
             Result(FALSE, [text |-> "Refund processing error", e |-> outcome.e]))
    ELSE IF outcome.value[1]
    THEN Returned(op, args, calls, Result(TRUE, outcome.value[2]))
    ELSE Returned(op, args, calls,
             Result(FALSE, [text |-> "Refund failed", message |-> outcome.value[2]]))

(* outcome: what payment_gateway.refund_payment does if it is called *)
refund_late_fee_payment(transaction_id, amount, outcome) ==
    LET rej == RefundCheck(transaction_id, amount)
        op == "refund_late_fee_payment"
        args == <<transaction_id, amount>>
        calls == <<[method |-> "refund_payment", transaction_id |-> transaction_id,
                    amount |-> amount, outcome |-> outcome]>>
    IN  /\ UNCHANGED <<books, borrow_records, now>>
        /\ storage' = <<>>
        /\ last' = IF rej # None
                   THEN Returned(op, args, <<>>, Result(FALSE, rej))
                   ELSE RefundOutcome(op, args, calls, outcome)

----------------------------------------------------------------------------
(* Inputs *)

Patron1 == <<"1", "2", "3", "4", "5", "6">>
Patron2 == <<"6", "5", "4", "3", "2", "1">>
PatronAlpha == <<"1", "2", "A", "4", "5", "6">>
PatronShort == <<"1", "2", "3">>
PatronEmpty == <<>>

MalformedPatrons == {PatronAlpha, PatronShort, PatronEmpty}

Repeat(ch, n) == [i \in 1..n |-> ch]

TitleA == <<" ", "A", " ">>
TitleB == <<"B">>
AuthorA == <<"a">>
AuthorB == <<"b", " ">>
IsbnA == Repeat("1", ISBN_LEN)
IsbnB == Repeat("2", ISBN_LEN)
Isbns == {IsbnA, IsbnB}

(* the ids the catalog can hold, and one that is never a book's *)
BookIds == 1..(Cardinality(Isbns) + 1)

(* (patron, book) arguments of the lending calls: the patron with every book
   id, and each malformed patron id once *)
CallInputs == ({Patron1} \X BookIds) \cup (MalformedPatrons \X {1})

(* (patron, book) arguments of the fee calls *)
FeeInputs == ({Patron1, Patron2} \X BookIds) \cup (MalformedPatrons \X {1})

(* well-formed add_book arguments *)
AddBookInputs ==
    {<<TitleA, AuthorA, IsbnA>>, <<TitleB, AuthorB, IsbnB>>} \X {1, MaxCopies}

TxnGood == TXN_PREFIX \o <<"a", "1">>
TxnInputs == {TxnGood, <<"i", "d", "_", "1">>, <<>>}

AmountInputs == {-5000, 0, 5000, MAX_FEE, MAX_FEE + 10}

PaymentOutcomes ==
    {GatewayReturns(<<TRUE, TxnGood, Msg("Payment processed successfully")>>),
     GatewayReturns(<<FALSE, <<>>, Msg("Payment declined")>>),
     GatewayReturns(<<FALSE, TxnGood, Msg("Payment declined")>>),
     GatewayRaises("Network timeout")}

RefundOutcomes ==
    {GatewayReturns(<<TRUE, Msg("Refund processed successfully")>>),
     GatewayReturns(<<FALSE, Msg("Refund failed")>>),
     GatewayRaises("Gateway error")}

(* what the gateway does is drawn only for a call that reaches it *)
OutcomesIf(called, outcomes) ==
    IF called THEN outcomes ELSE {CHOOSE o \in outcomes : TRUE}

NoCall == Returned("none", <<>>, <<>>, None)

----------------------------------------------------------------------------
(* The library from an empty database, its storage writes succeeding *)

Init ==
    /\ books = <<>>
    /\ borrow_records = <<>>
    /\ now = 0
    /\ last = NoCall
    /\ storage = <<>>

AddBook ==
    \E inp \in AddBookInputs :
        add_book_to_catalog(inp[1][1], inp[1][2], inp[1][3], inp[2], TRUE)

Borrow ==
    \E inp \in CallInputs :
        /\ BorrowCheck(inp[1], inp[2]) = None => Len(borrow_records) < MaxRecords
        /\ borrow_book_by_patron(inp[1], inp[2], TRUE, TRUE)

Return ==
    \E inp \in CallInputs :
        /\ ReturnCheck(inp[1], inp[2]) = None =>
               get_book_by_id(inp[2]).available_copies + ReturnDelta <= MaxCopies
        /\ return_book_by_patron(inp[1], inp[2], TRUE, TRUE)

Next == AddBook \/ Borrow \/ Return

Spec == Init /\ [][Next]_vars

----------------------------------------------------------------------------
(* Fees, payments and refunds over a library with books out, as the clock runs *)

Rec(patron_id, book_id, borrow_date) ==
    [patron_id |-> patron_id, book_id |-> book_id, borrow_date |-> borrow_date,
     due_date |-> borrow_date + timedelta(LOAN_DAYS), return_date |-> Null]

(* no book out; one book out, borrowed at tick 0; a second borrowed at tick 1 *)
FeeScenarios ==
    {<<>>}
    \cup {<<Rec(p, b, 0)>> : p \in {Patron1, Patron2}, b \in 1..2}
    \cup {<<Rec(Patron1, 1, 0), Rec(p, b, 1)>> : p \in {Patron1, Patron2}, b \in 1..2}

Out(recs, book_id) == Cardinality({i \in 1..Len(recs) : recs[i].book_id = book_id})

FeeCatalog(recs) ==
    <<[id |-> 1, title |-> strip(TitleA), author |-> strip(AuthorA), isbn |-> IsbnA,
       total_copies |-> MaxCopies, available_copies |-> MaxCopies - Out(recs, 1)],
      [id |-> 2, title |-> strip(TitleB), author |-> strip(AuthorB), isbn |-> IsbnB,
       total_copies |-> MaxCopies, available_copies |-> MaxCopies - Out(recs, 2)]>>

MaxNow == timedelta(LOAN_DAYS + MaxDaysOverdue + 1)

FeeInit ==
    /\ borrow_records \in FeeScenarios
    /\ books = FeeCatalog(borrow_records)
    /\ now = Len(borrow_records) \div 2
    /\ last = NoCall
    /\ storage = <<>>

(* the clock moves on; last holds a call only while the clock stands at the
   instant the call was made *)
Tick ==
    /\ now < MaxNow
    /\ now' = now + 1
    /\ last' = NoCall
    /\ storage' = <<>>
    /\ UNCHANGED <<books, borrow_records>>

Fee == \E inp \in FeeInputs : CalculateLateFee(inp[1], inp[2])

Pay ==
    \E inp \in FeeInputs :
        \E outcome \in OutcomesIf(PayCheck(inp[1], inp[2]) = None, PaymentOutcomes) :
            pay_late_fees(inp[1], inp[2], outcome)

Refund ==
    \E transaction_id \in TxnInputs, amount \in AmountInputs :
        \E outcome \in OutcomesIf(RefundCheck(transaction_id, amount) = None,
                                  RefundOutcomes) :
            refund_late_fee_payment(transaction_id, amount, outcome)

FeeNext == Tick \/ Fee \/ Pay \/ Refund

FeeSpec == FeeInit /\ [][FeeNext]_vars

----------------------------------------------------------------------------
(* The catalog: add_book_to_catalog called with well-formed and malformed
   arguments, insert_book succeeding or failing *)

(* a title of exactly MAX_TITLE_LEN characters between two spaces *)
TitleFull == <<" ">> \o Repeat("T", MAX_TITLE_LEN) \o <<" ">>
TitleBlank == <<" ", " ">>
TitleLong == Repeat("T", MAX_TITLE_LEN + 1)
AuthorBlank == <<" ">>
AuthorLong == Repeat("a", MAX_AUTHOR_LEN + 1)
IsbnShort == Repeat("1", ISBN_LEN - 1)
IsbnLong == Repeat("1", ISBN_LEN + 1)

(* thirteen characters that are not digits: the code tests the length only *)
IsbnX == Repeat("X", ISBN_LEN)

(* <<<<title, author, isbn>>, total_copies>> that pass the input validation *)
GoodAddBookInputs ==
    AddBookInputs \cup ({<<TitleFull, AuthorA, IsbnX>>} \X {1, MaxCopies})

(* <<<<title, author, isbn>>, total_copies>> that fail it, one for each test *)
BadAddBookInputs ==
    {<<<<<<>>, AuthorA, IsbnA>>, 1>>,
     <<<<TitleBlank, AuthorA, IsbnA>>, 1>>,
     <<<<TitleLong, AuthorA, IsbnA>>, 1>>,
     <<<<TitleA, <<>>, IsbnA>>, 1>>,
     <<<<TitleA, AuthorBlank, IsbnA>>, 1>>,
     <<<<TitleA, AuthorLong, IsbnA>>, 1>>,
     <<<<TitleA, AuthorA, IsbnShort>>, 1>>,
     <<<<TitleA, AuthorA, IsbnLong>>, 1>>,
     <<<<TitleA, AuthorA, <<>>>>, 1>>,
     <<<<TitleA, AuthorA, IsbnA>>, 0>>,
     <<<<TitleA, AuthorA, IsbnA>>, -1>>}

CatalogInputs == GoodAddBookInputs \cup BadAddBookInputs

(* what a storage write returns is drawn only for a call that reaches it *)
WriteResultsIf(called) == IF called THEN BOOLEAN ELSE {TRUE}

AddBookAny ==
    \E inp \in CatalogInputs :
        \E success \in WriteResultsIf(
                AddBookCheck(inp[1][1], inp[1][2], inp[1][3], inp[2]) = None) :
            add_book_to_catalog(inp[1][1], inp[1][2], inp[1][3], inp[2], success)

CatalogNext == AddBookAny

CatalogSpec == Init /\ [][CatalogNext]_vars

----------------------------------------------------------------------------
(* Every operation on a small library, called with well-formed and malformed
   arguments, the storage writes succeeding; the clock moves once, past the due
   date of what was borrowed before *)

ServiceAddBookInputs == AddBookInputs \cup BadAddBookInputs

ServiceAddBook ==
    \E inp \in ServiceAddBookInputs :
        add_book_to_catalog(inp[1][1], inp[1][2], inp[1][3], inp[2], TRUE)

ServiceBorrow ==
    \E inp \in CallInputs :
        /\ BorrowCheck(inp[1], inp[2]) = None => Len(borrow_records) < MaxServiceRecords
        /\ borrow_book_by_patron(inp[1], inp[2], TRUE, TRUE)

(* the clock moves past the due date of a book borrowed at the start *)
Later ==
    /\ now = 0
    /\ now' = timedelta(LOAN_DAYS + 1)
    /\ last' = NoCall
    /\ storage' = <<>>
    /\ UNCHANGED <<books, borrow_records>>

ServiceNext == ServiceAddBook \/ ServiceBorrow \/ Return \/ Later \/ Pay \/ Refund

ServiceSpec == Init /\ [][ServiceNext]_vars

----------------------------------------------------------------------------
(* Lending on a small library whose storage writes may fail: a failed write
   returns False and changes nothing *)

FaultAddBook ==
    \E inp \in AddBookInputs :
        \E success \in WriteResultsIf(
                AddBookCheck(inp[1][1], inp[1][2], inp[1][3], inp[2]) = None) :
            add_book_to_catalog(inp[1][1], inp[1][2], inp[1][3], inp[2], success)

FaultBorrow ==
    \E inp \in CallInputs :
        \E borrow_success \in WriteResultsIf(BorrowCheck(inp[1], inp[2]) = None) :
            \E availability_success \in
                    WriteResultsIf(BorrowCheck(inp[1], inp[2]) = None /\ borrow_success) :
                /\ (BorrowCheck(inp[1], inp[2]) = None /\ borrow_success)
                       => Len(borrow_records) < MaxFaultRecords
                /\ borrow_book_by_patron(inp[1], inp[2], borrow_success,
                                         availability_success)

FaultReturn ==
    \E inp \in CallInputs :
        \E return_success, availability_success \in
                WriteResultsIf(ReturnCheck(inp[1], inp[2]) = None) :
            /\ (ReturnCheck(inp[1], inp[2]) = None /\ availability_success)
                   => get_book_by_id(inp[2]).available_copies + ReturnDelta <= MaxCopies
            /\ return_book_by_patron(inp[1], inp[2], return_success,
                                     availability_success)

FaultNext == FaultAddBook \/ FaultBorrow \/ FaultReturn

FaultSpec == Init /\ [][FaultNext]_vars

----------------------------------------------------------------------------
(* Status reports over a library with books out, as the clock runs *)

StatusInputs == {Patron1, Patron2} \cup MalformedPatrons

Status == \E patron_id \in StatusInputs : PatronStatusReport(patron_id)

ReportNext == Tick \/ Status

ReportSpec == FeeInit /\ [][ReportNext]_vars

----------------------------------------------------------------------------
(* Properties *)

IsCall(call, op) == call.op = op /\ call.exception = Null

LimitMessage == Msg("You have reached the maximum borrowing limit of 5 books.")

(* the patron's first outstanding record of the book, as a sequence of at
   most one record *)
Outstanding(patron_id, book_id) ==
    SelectSeq(borrow_records,
              LAMBDA r : r.patron_id = patron_id /\ r.book_id = book_id
                         /\ r.return_date = Null)

(* C1: in every state reached by add_book, borrow and return calls whose
   storage writes succeed, every book has 0 <= available_copies <= total_copies *)
C1_AvailableWithinTotal ==
    \A i \in 1..Len(books) :
        0 <= books[i].available_copies
        /\ books[i].available_copies <= books[i].total_copies

(* C2: no patron ever holds more than 5 outstanding borrow records *)
C2_AtMostFiveOutstanding ==
    \A i \in 1..Len(borrow_records) :
        get_patron_borrow_count(borrow_records[i].patron_id) <= 5

(* C3: a borrow by a valid patron id of an existing book with a copy available
   is rejected for the borrowing limit exactly when the patron's outstanding
   count is greater than 5: allowed at 5, rejected at 6 *)
C3_LimitBoundary ==
    [][\A inp \in CallInputs :
          (/\ IsCall(last', "borrow_book_by_patron")
           /\ last'.args = inp
           /\ ValidPatronId(inp[1])
           /\ get_book_by_id(inp[2]) # None
           /\ get_book_by_id(inp[2]).available_copies > 0)
          => /\ (last'.ret.message = LimitMessage)
                    <=> (get_patron_borrow_count(inp[1]) > 5)
             /\ get_patron_borrow_count(inp[1]) = 5 => last'.ret.success
             /\ get_patron_borrow_count(inp[1]) = 6 => ~last'.ret.success]_vars

(* a patron holding 6 books is turned away for the limit, a copy being available *)
C3_Witness ==
    /\ IsCall(last, "borrow_book_by_patron")
    /\ last.ret.message = LimitMessage
    /\ get_patron_borrow_count(last.args[1]) = 6
    /\ get_book_by_id(last.args[2]).available_copies > 0

(* C4: a successful return raises the book's available_copies by exactly 1 *)
C4_ReturnAddsOne ==
    [][\A inp \in CallInputs :
          (IsCall(last', "return_book_by_patron") /\ last'.args = inp
           /\ last'.ret.success)
          => get_book_by_id(inp[2])'.available_copies
                 = get_book_by_id(inp[2]).available_copies + 1]_vars

(* the record a fee call for (patron_id, book_id) assesses is overdue by d whole
   days: d days have passed since its due date, and d + 1 have not *)
OverdueBy(patron_id, book_id, d) ==
    /\ Outstanding(patron_id, book_id) # <<>>
    /\ now > Head(Outstanding(patron_id, book_id)).due_date
    /\ timedelta(d) <= now - Head(Outstanding(patron_id, book_id)).due_date
    /\ now - Head(Outstanding(patron_id, book_id)).due_date < timedelta(d + 1)

IsOverdueFee(call) ==
    IsCall(call, "calculate_late_fee_for_book") /\ call.ret.status.text = "Late fee"

(* C5 as stated: an overdue record, d whole days past due, is assessed
   min(15.00, 0.50 * min(d, 7) + 1.00 * max(d - 7, 0)): 3.50 at d = 7, 4.50 at
   d = 8, 15.00 at d = 17 and at d = 100 *)
C5_TieredFee ==
    IsCall(last, "calculate_late_fee_for_book") =>
        \A d \in 0..(MaxDaysOverdue + 1) :
            OverdueBy(last.args[1], last.args[2], d) =>
                /\ last.ret.days_overdue = d
                /\ last.ret.fee_amount
                       = Min(15000, 500 * Min(d, 7) + 1000 * Max(d - 7, 0))
                /\ d = 7 => last.ret.fee_amount = 3500
                /\ d = 8 => last.ret.fee_amount = 4500
                /\ d = 17 => last.ret.fee_amount = 15000
                /\ d = 100 => last.ret.fee_amount = 15000

(* C5 amended: the same formula, which gives 13.50 at d = 17 *)
C5_TieredFeeAmended ==
    IsCall(last, "calculate_late_fee_for_book") =>
        \A d \in 0..(MaxDaysOverdue + 1) :
            OverdueBy(last.args[1], last.args[2], d) =>
                /\ last.ret.days_overdue = d
                /\ last.ret.fee_amount
                       = Min(15000, 500 * Min(d, 7) + 1000 * Max(d - 7, 0))
                /\ d = 7 => last.ret.fee_amount = 3500
                /\ d = 8 => last.ret.fee_amount = 4500
                /\ d = 17 => last.ret.fee_amount = 13500
                /\ d = 100 => last.ret.fee_amount = 15000

(* a record 100 days overdue has been assessed *)
C5_Witness ==
    /\ IsOverdueFee(last)
    /\ OverdueBy(last.args[1], last.args[2], 100)
    /\ last.ret.fee_amount = 15000

(* the fee is zero while now <= due_date, strictly increasing in days_overdue
   from 0 to capDay, exactly 15.00 from capDay days on, and within [0, 15.00] *)
FeeShape(capDay) ==
    IsCall(last, "calculate_late_fee_for_book") =>
        LET rec == Outstanding(last.args[1], last.args[2])
            d == last.ret.days_overdue
            fee == last.ret.fee_amount
        IN  /\ 0 <= fee /\ fee <= 15000
            /\ (rec # <<>> /\ now <= Head(rec).due_date) => fee = 0
            /\ IsOverdueFee(last) =>
                   /\ d >= capDay => fee = 15000
                   /\ (1 <= d /\ d <= capDay) =>
                          \A e \in 0..(d - 1) : round2(FeeForDays(e)) < fee

(* C6 as stated: the fee is zero while now <= due_date, strictly increasing in
   days_overdue from 0 to 17, exactly 15.00 from 17 days on, and always within
   [0, 15.00] *)
C6_FeeShape == FeeShape(17)

(* C6 amended: the fee grows strictly up to 19 days and is 15.00 from 19 days on *)
C6_FeeShapeAmended == FeeShape(19)

(* a record 18 days overdue has been assessed, one dollar below the cap's day *)
C6_Witness ==
    /\ IsOverdueFee(last)
    /\ OverdueBy(last.args[1], last.args[2], 18)
    /\ last.ret.fee_amount = 14500

(* the status of an assessment carries the maximum-fee marker exactly when the
   record is overdue by capDay days or more; not-overdue and no-record
   assessments never carry it *)
MaximumMarker(capDay) ==
    IsCall(last, "calculate_late_fee_for_book") =>
        IF IsOverdueFee(last)
        THEN last.ret.status.maximum_fee_applied <=> (last.ret.days_overdue >= capDay)
        ELSE last.ret.status \in {Msg("No active borrow record found"),
                                  Msg("No late fees - book not overdue")}

(* C7 as stated: the marker is carried exactly when days_overdue >= 17 *)
C7_MaximumMarker == MaximumMarker(17)

(* C7 amended: the marker is carried exactly when days_overdue >= 19 *)
C7_MaximumMarkerAmended == MaximumMarker(19)

(* the marker is set on the first day the cap applies *)
C7_Witness ==
    /\ IsOverdueFee(last)
    /\ OverdueBy(last.args[1], last.args[2], 19)
    /\ last.ret.status.maximum_fee_applied

(* the gateway's identifier format: the characters t, x, n, _ and whatever follows *)
WellFormedTxn(transaction_id) ==
    /\ Len(transaction_id) >= 4
    /\ transaction_id[1] = "t" /\ transaction_id[2] = "x"
    /\ transaction_id[3] = "n" /\ transaction_id[4] = "_"

(* C8: pay_late_fees never calls gateway.process_payment when the patron id is
   malformed, the computed fee is <= 0 (no outstanding record and not-overdue
   records included) or the book is absent; it then returns failure with a
   null transaction id *)
C8_NoChargeWithoutFee ==
    [][\A inp \in FeeInputs :
          (/\ last'.op = "pay_late_fees"
           /\ last'.args = inp
           /\ \/ ~(isdigit(inp[1]) /\ Len(inp[1]) = 6)
              \/ calculate_late_fee_for_book(inp[1], inp[2]).fee_amount <= 0
              \/ Outstanding(inp[1], inp[2]) = <<>>
              \/ inp[2] \notin 1..Len(books))
          => /\ last'.gateway = <<>>
             /\ last'.exception = Null
             /\ ~last'.ret.success
             /\ last'.ret.transaction_id = Null]_vars

(* a payment was asked for a record that is overdue by less than a day, whose
   fee is zero, and was refused *)
C8_Witness ==
    /\ IsCall(last, "pay_late_fees")
    /\ OverdueBy(last.args[1], last.args[2], 0)
    /\ last.gateway = <<>>
    /\ ~last.ret.success

(* C9: refund_late_fee_payment fails without calling gateway.refund_payment
   when the transaction id is not in the gateway's format, when amount <= 0 or
   when amount > 15.00; for a well-formed id and 0 < amount <= 15.00 it calls
   gateway.refund_payment exactly once, with that id and amount *)
C9_RefundValidation ==
    last.op = "refund_late_fee_payment" =>
        LET transaction_id == last.args[1]
            amount == last.args[2]
        IN  IF ~WellFormedTxn(transaction_id) \/ amount <= 0 \/ amount > 15000
            THEN /\ last.gateway = <<>>
                 /\ last.exception = Null
                 /\ ~last.ret.success
            ELSE /\ Len(last.gateway) = 1
                 /\ last.gateway[1].method = "refund_payment"
                 /\ last.gateway[1].transaction_id = transaction_id
                 /\ last.gateway[1].amount = amount

(* a refund of exactly 15.00 reached the gateway *)
C9_Witness ==
    /\ IsCall(last, "refund_late_fee_payment")
    /\ last.args[2] = 15000
    /\ Len(last.gateway) = 1
    /\ last.ret.success

(* C10: once pay_late_fees or refund_late_fee_payment has called the gateway,
   it succeeds exactly when the gateway returned success; a decline and an
   exception both give a failure result, no exception leaves the function, and
   pay_late_fees returns a transaction id only on success, the gateway's *)
C10_GatewayOutcomeMapped ==
    (last.op \in {"pay_late_fees", "refund_late_fee_payment"} /\ last.gateway # <<>>) =>
        LET outcome == last.gateway[1].outcome
            accepted == outcome.kind = "return" /\ outcome.value[1]
        IN  /\ Len(last.gateway) = 1
            /\ last.exception = Null
            /\ last.ret.success <=> accepted
            /\ last.op = "pay_late_fees" =>
                   last.ret.transaction_id
                       = IF accepted THEN Some(outcome.value[2]) ELSE Null

(* the gateway raised during a payment and the caller got a failure result *)
C10_Witness ==
    /\ IsCall(last, "pay_late_fees")
    /\ Len(last.gateway) = 1
    /\ last.gateway[1].outcome.kind = "raise"
    /\ ~last.ret.success
    /\ last.ret.transaction_id = Null

(* C11: after a successful add_book (valid inputs, the isbn not registered
   before), get_book_by_isbn for the same isbn yields a book whose
   available_copies and total_copies both equal the total_copies argument *)
C11_AddedBookFullyAvailable ==
    (IsCall(last, "add_book_to_catalog") /\ last.ret.success) =>
        /\ get_book_by_isbn(last.args[3]) # None
        /\ get_book_by_isbn(last.args[3]).total_copies = last.args[4]
        /\ get_book_by_isbn(last.args[3]).available_copies = last.args[4]
        /\ get_book_by_isbn(last.args[3]).available_copies
               = get_book_by_isbn(last.args[3]).total_copies

(* a book of several copies has just been added to a catalog that held another *)
C11_Witness ==
    /\ IsCall(last, "add_book_to_catalog")
    /\ last.ret.success
    /\ last.args[4] = MaxCopies
    /\ Len(books) >= 2
    /\ get_book_by_isbn(last.args[3]).id = Len(books)

DuplicateMessage == Msg("A book with this ISBN already exists.")

(* C12: no two registered books share an isbn; add_book with a registered isbn
   fails, writes nothing and leaves the catalog unchanged, and its reason is the
   duplicate-ISBN one when the arguments pass the input validation that comes
   before the duplicate check *)
C12_IsbnUnique ==
    /\ [](\A i, j \in 1..Len(books) : books[i].isbn = books[j].isbn => i = j)
    /\ [][\A inp \in CatalogInputs :
             (/\ last'.op = "add_book_to_catalog"
              /\ last'.args = <<inp[1][1], inp[1][2], inp[1][3], inp[2]>>
              /\ \E i \in 1..Len(books) : books[i].isbn = inp[1][3])
             => /\ last'.exception = Null
                /\ ~last'.ret.success
                /\ books' = books
                /\ \A k \in 1..Len(storage') : storage'[k] # "insert_book"
                /\ inp \in GoodAddBookInputs => last'.ret.message = DuplicateMessage]_vars

(* a registered isbn was offered again, with another number of copies, and refused *)
C12_Witness ==
    /\ IsCall(last, "add_book_to_catalog")
    /\ last.ret.message = DuplicateMessage
    /\ get_book_by_isbn(last.args[3]) # None
    /\ get_book_by_isbn(last.args[3]).total_copies # last.args[4]
    /\ storage = <<"get_book_by_isbn">>

(* a patron id that is not exactly 6 digits *)
MalformedPatronId(patron_id) ==
    ~(Len(patron_id) = 6 /\ \A i \in 1..Len(patron_id) : patron_id[i] \in Digits)

(* add_book arguments with an empty or over-long title or author (surrounding
   whitespace not counted), an isbn not of length 13 or a non-positive
   total_copies *)
MalformedBook(title, author, isbn, total_copies) ==
    \/ Len(strip(title)) = 0 \/ Len(strip(title)) > 200
    \/ Len(strip(author)) = 0 \/ Len(strip(author)) > 100
    \/ Len(isbn) # 13
    \/ total_copies <= 0

(* refund arguments with a malformed transaction id or an out-of-range amount *)
MalformedRefund(transaction_id, amount) ==
    ~WellFormedTxn(transaction_id) \/ amount <= 0 \/ amount > 15000

MalformedCall(call) ==
    \/ /\ call.op \in {"borrow_book_by_patron", "return_book_by_patron", "pay_late_fees"}
       /\ MalformedPatronId(call.args[1])
    \/ /\ call.op = "add_book_to_catalog"
       /\ MalformedBook(call.args[1], call.args[2], call.args[3], call.args[4])
    \/ /\ call.op = "refund_late_fee_payment"
       /\ MalformedRefund(call.args[1], call.args[2])

(* C13: a call of borrow, return or pay_fee with a patron id that is not exactly
   6 digits, of add_book with an empty or over-long title or author, an isbn not
   of length 13 or a non-positive total_copies, or of refund_fee with a
   malformed transaction id or an out-of-range amount fails before any
   persistence or gateway function is called, and books and borrow records are
   unchanged *)
C13_MalformedRejectedFirst ==
    [][MalformedCall(last') =>
          /\ last'.exception = Null
          /\ ~last'.ret.success
          /\ storage' = <<>>
          /\ last'.gateway = <<>>
          /\ books' = books
          /\ borrow_records' = borrow_records]_vars

(* a three-digit patron id asked for a book that has a copy available, and no
   collaborator was called *)
C13_Witness ==
    /\ IsCall(last, "borrow_book_by_patron")
    /\ last.args[1] = PatronShort
    /\ get_book_by_id(last.args[2]) # None
    /\ get_book_by_id(last.args[2]).available_copies > 0
    /\ ~last.ret.success
    /\ storage = <<>>

(* the positions of a persistence function in the trace of the last call *)
CallsOf(trace, fn) == {k \in 1..Len(trace) : trace[k] = fn}

BorrowStorageErrors ==
    {Msg("Database error occurred while creating borrow record."),
     Msg("Database error occurred while updating book availability.")}

(* C14: in borrow the record insert comes before the availability decrement,
   and the decrement is attempted only after the insert succeeded; if either
   write fails borrow reports a database error, and when the insert fails
   available_copies is not decremented.  A write that was called and left its
   table as it was is one that failed. *)
C14_InsertThenDecrement ==
    [][last'.op = "borrow_book_by_patron" =>
          LET ins == CallsOf(storage', "insert_borrow_record")
              upd == CallsOf(storage', "update_book_availability")
              inserted == borrow_records' # borrow_records
              decremented == books' # books
          IN  /\ inserted => ins # {}
              /\ decremented => upd # {}
              /\ \A u \in upd : inserted /\ \E i \in ins : i < u
              /\ (ins # {} /\ ~inserted) =>
                     /\ ~last'.ret.success
                     /\ last'.ret.message \in BorrowStorageErrors
                     /\ upd = {}
                     /\ \A b \in 1..Len(books) :
                            books'[b].available_copies = books[b].available_copies
              /\ (upd # {} /\ ~decremented) =>
                     /\ ~last'.ret.success
                     /\ last'.ret.message \in BorrowStorageErrors
              /\ last'.exception = Null]_vars

(* the decrement failed after the insert succeeded: the record is there and
   the call reported a database error *)
C14_Witness ==
    /\ IsCall(last, "borrow_book_by_patron")
    /\ last.ret.message = Msg("Database error occurred while updating book availability.")
    /\ CallsOf(storage, "insert_borrow_record") = {3}
    /\ CallsOf(storage, "update_book_availability") = {4}
    /\ Outstanding(last.args[1], last.args[2]) # <<>>

NoActiveBorrowMessage == Msg("No active borrow record found for this book and patron.")

(* the records of the pair that a return has closed *)
Closed(patron_id, book_id) ==
    SelectSeq(borrow_records,
              LAMBDA r : r.patron_id = patron_id /\ r.book_id = book_id
                         /\ r.return_date # Null)

(* C15: after a successful return the (patron, book) pair has no outstanding
   record; a return_book repeated at once for the same pair fails with the
   no-active-borrow reason and changes neither records nor available_copies;
   and return_book for a pair with no outstanding record (one that never had
   any included) always fails and changes nothing, with that reason when the
   patron id is valid and the book exists, the two checks that come first *)
C15_ReturnClosesRecord ==
    [][\A inp \in CallInputs :
          (last'.op = "return_book_by_patron" /\ last'.args = inp) =>
              /\ last'.exception = Null
              /\ last'.ret.success =>
                     /\ Outstanding(inp[1], inp[2]) # <<>>
                     /\ Outstanding(inp[1], inp[2])' = <<>>
                     /\ Closed(inp[1], inp[2])' # <<>>
              /\ (/\ IsCall(last, "return_book_by_patron")
                  /\ last.args = inp
                  /\ last.ret.success) =>
                     /\ ~last'.ret.success
                     /\ last'.ret.message = NoActiveBorrowMessage
                     /\ borrow_records' = borrow_records
                     /\ books' = books
              /\ Outstanding(inp[1], inp[2]) = <<>> =>
                     /\ ~last'.ret.success
                     /\ borrow_records' = borrow_records
                     /\ books' = books
                     /\ (~MalformedPatronId(inp[1]) /\ inp[2] \in 1..Len(books))
                            => last'.ret.message = NoActiveBorrowMessage]_vars

(* a return was refused for a pair whose record an earlier return had closed *)
C15_Witness ==
    /\ IsCall(last, "return_book_by_patron")
    /\ last.ret.message = NoActiveBorrowMessage
    /\ Closed(last.args[1], last.args[2]) # <<>>
    /\ Outstanding(last.args[1], last.args[2]) = <<>>

(* the fee assessment of one outstanding record: zero while now <= due_date,
   then the tiered, capped fee of its whole days overdue *)
RecordFee(r) ==
    IF now <= r.due_date THEN 0
    ELSE LET d == (now - r.due_date) \div TicksPerDay
         IN  Min(15000, 500 * Min(d, 7) + 1000 * Max(d - 7, 0))

RECURSIVE SumFees(_)
SumFees(recs) == IF recs = <<>> THEN 0 ELSE RecordFee(Head(recs)) + SumFees(Tail(recs))

(* C16: for a valid patron id the report's total borrowed is the patron's number
   of outstanding records, the remaining slots are 5 minus that number, the
   total fees are the sum of the fee assessments of the patron's outstanding
   borrows, and the overdue list holds exactly the outstanding borrows whose
   assessed fee is greater than 0 *)
C16_StatusReport ==
    (IsCall(last, "get_patron_status_report") /\ ~MalformedPatronId(last.args[1])) =>
        LET mine == SelectSeq(borrow_records,
                              LAMBDA r : r.patron_id = last.args[1]
                                         /\ r.return_date = Null)
            owing == SelectSeq(mine, LAMBDA r : RecordFee(r) > 0)
        IN  /\ last.ret.patron_id = last.args[1]
            /\ last.ret.total_books_borrowed = Len(mine)
            /\ last.ret.borrowing_limit_remaining = 5 - Len(mine)
            /\ last.ret.total_late_fees = SumFees(mine)
            /\ Len(last.ret.overdue_books) = Len(owing)
            /\ \A i \in 1..Len(owing) :
                   /\ i <= Len(last.ret.overdue_books)
                   /\ last.ret.overdue_books[i].fee = RecordFee(owing[i])
                   /\ last.ret.overdue_books[i].book_title
                          = books[owing[i].book_id].title

(* the number of outstanding records that reference the book *)
OutstandingOf(book_id) ==
    Cardinality({i \in 1..Len(borrow_records) :
                    borrow_records[i].book_id = book_id
                    /\ borrow_records[i].return_date = Null})

(* C17: in every state reached by add_book, borrow and return calls whose
   storage writes succeed, each book's available_copies equals its total_copies
   minus the number of outstanding records that reference it *)
C17_AvailableMatchesOutstanding ==
    \A b \in 1..Len(books) :
        books[b].available_copies = books[b].total_copies - OutstandingOf(b)

(* C18: whenever borrow or return_book reports failure, one of its two storage
   writes failing included, books and borrow records are exactly as they were
   before the call *)
C18_FailureLeavesStateAlone ==
    [][(/\ last'.op \in {"borrow_book_by_patron", "return_book_by_patron"}
        /\ last'.exception = Null
        /\ ~last'.ret.success)
       => /\ books' = books
          /\ borrow_records' = borrow_records]_vars

PersistenceWrites ==
    {"insert_book", "insert_borrow_record", "update_borrow_record_return_date",
     "update_book_availability"}

(* C19: the fee calculator, pay_fee and refund_fee never write to persistence:
   whatever their outcome, books and borrow records are unchanged; so after a
   successful pay_fee an assessment of the same patron and book at the same
   clock time returns the fee_amount that was paid, and a second pay_fee submits
   that amount to the gateway again *)
C19_FeeCallsDoNotWrite ==
    [][/\ last'.op \in {"calculate_late_fee_for_book", "pay_late_fees",
                        "refund_late_fee_payment"}
          => /\ books' = books
             /\ borrow_records' = borrow_records
             /\ \A k \in 1..Len(storage') : storage'[k] \notin PersistenceWrites
       /\ (IsCall(last, "pay_late_fees") /\ last.ret.success /\ now' = now) =>
             /\ (last'.op = "calculate_late_fee_for_book" /\ last'.args = last.args)
                    => /\ last'.ret.fee_amount = last.gateway[1].amount
                       /\ last'.ret.fee_amount > 0
             /\ (last'.op = "pay_late_fees" /\ last'.args = last.args)
                    => /\ Len(last'.gateway) = 1
                       /\ last'.gateway[1].method = "process_payment"
                       /\ last'.gateway[1].patron_id = last.args[1]
                       /\ last'.gateway[1].amount = last.gateway[1].amount]_vars

(* a payment went through and the record it paid for is still outstanding and
   still assessed at the amount paid *)
C19_Witness ==
    /\ IsCall(last, "pay_late_fees")
    /\ last.ret.success
    /\ Outstanding(last.args[1], last.args[2]) # <<>>
    /\ calculate_late_fee_for_book(last.args[1], last.args[2]).fee_amount
           = last.gateway[1].amount
    /\ last.gateway[1].amount > 0

====
